---- MODULE Spec2Model ----
(***************************************************************************)
(* Model of the video-to-text job pipeline.                                *)
(*                                                                         *)
(*   src/main.py          create_task, delete_task (submission boundary)   *)
(*   src/celery_tasks.py  update_task_status, the three stages,            *)
(*                        generate_srt, format_timestamp and               *)
(*                        process_video_task (the executor)                *)
(*                                                                         *)
(* Python strings are sequences: messages are sequences of tokens, caption *)
(* text is a sequence of one-character strings.  An optional value (a      *)
(* parameter that may be None, a dictionary key that may be missing) is a  *)
(* set with at most one element.                                           *)
(***************************************************************************)
EXTENDS Integers, Sequences, FiniteSets, TLC

(* ------------------------------ bounds -------------------------------- *)

\* jobs the submission boundary creates
NumJobs == 1
\* executions that can be in flight at once (worker pool size)
NumExecs == 2
\* deliveries the queue makes in all; a job may be delivered more than once
MaxDeliveries == 2
\* names tempfile.mkdtemp can hand out
NumDirs == 2
\* failures of the environment in one run of the system: a tool or the model
\* runtime failing, Redis or the file system raising, a time limit firing
MaxFaults == 2
\* ticks of the clock
MaxTicks == 1

\* job ids: those of the NumJobs jobs, and one more id that only the
\* two-job specification uses
JobIds == 1..(NumJobs + 1)
Execs == 1..NumExecs
DirNames == 1..NumDirs

(* --------------------------- input domains ---------------------------- *)

\* main.py:39 Literal['txt', 'srt']
OutputFormats == {"txt", "srt"}
\* main.py:41 Literal[...]; two of the five variants
ModelSizes == {"tiny", "small"}
\* standard-error texts of a failing tool (may be empty)
Stderrs == {<<>>, <<"E1">>}

None == {}
Some(x) == {x}
TheValue(opt) == CHOOSE x \in opt : TRUE

\* Python truthiness of an optional string or dictionary: None and the empty
\* value are false
Truthy(opt) == opt # {} /\ \A x \in opt : x # <<>>

(* ------------------------------ messages ------------------------------ *)

\* celery_tasks.py:94   f'yt-dlp下载失败: {result.stderr}'
MsgYtdlpFailed(stderr) == <<"yt-dlp failed: ">> \o stderr
\* celery_tasks.py:103  '下载的音频文件未找到'
MsgOutputMissing == <<"downloaded audio file not found">>
\* celery_tasks.py:106  '视频下载超时'
MsgDownloadTimeout == <<"video download timed out">>
\* celery_tasks.py:108  f'下载失败: {str(e)}'
MsgDownloadWrap(m) == <<"download failed: ">> \o m
\* celery_tasks.py:133  f'FFmpeg处理失败: {result.stderr}'
MsgFfmpegFailed(stderr) == <<"FFmpeg failed: ">> \o stderr
\* celery_tasks.py:138  '音频处理超时'
MsgFfmpegTimeout == <<"audio processing timed out">>
\* celery_tasks.py:140  f'音频处理失败: {str(e)}'
MsgFfmpegWrap(m) == <<"audio processing failed: ">> \o m
\* celery_tasks.py:186  f'语音识别失败: {str(e)}'
MsgWhisperWrap(m) == <<"speech recognition failed: ">> \o m
\* str() of the exceptions raised outside the three stages
MsgMkdtemp == <<"mkdtemp: OSError">>
MsgSoftTimeLimit == <<"SoftTimeLimitExceeded()">>
MsgLoadModel == <<"load_model: RuntimeError">>
MsgInference == <<"transcribe: RuntimeError">>

\* progress texts, celery_tasks.py:225, 231, 237, 250 and main.py:119
ProgSubmitted == <<"submitted, waiting">>
ProgDownload == <<"downloading video...">>
ProgFfmpeg == <<"processing audio format...">>
ProgWhisper(model_size) == <<"transcribing with Whisper(", model_size, ")...">>
ProgDone == <<"done">>

(* ------------------- IEEE-754 doubles (Python float) ------------------ *)
(* A natural number too wide for one machine integer is the sequence of    *)
(* its digits in base Base, least significant first, so that 53-bit        *)
(* significands and their products stay exact.  A non-negative float is    *)
(* [m |-> digits, e |-> exponent], the number m * 2^e.                      *)

Min(a, b) == IF a < b THEN a ELSE b
Max(a, b) == IF a > b THEN a ELSE b

\* wide numbers have digits below Base, a power of two
Base == 2 ^ 16
\* binary digits per digit of a wide number
DigitBits == CHOOSE n \in 1..30 : 2 ^ n = Base

RECURSIVE Wide(_)
\* the wide number of a machine integer
Wide(n) == IF n = 0 THEN <<>> ELSE <<n % Base>> \o Wide(n \div Base)

RECURSIVE WideVal(_)
\* the machine integer of a (small enough) wide number
WideVal(w) == IF w = <<>> THEN 0 ELSE Head(w) + Base * WideVal(Tail(w))

RECURSIVE Trim(_)
Trim(w) ==
    IF w = <<>> THEN <<>>
    ELSE IF w[Len(w)] = 0 THEN Trim(SubSeq(w, 1, Len(w) - 1))
    ELSE w

\* number of binary digits of a machine integer below Base
SmallBitLen(n) == CHOOSE len \in 0..DigitBits : n < 2 ^ len /\ (len = 0 \/ n >= 2 ^ (len - 1))
\* number of binary digits of a wide number without leading zeros
BitLen(w) ==
    IF w = <<>> THEN 0 ELSE DigitBits * (Len(w) - 1) + SmallBitLen(w[Len(w)])

RECURSIVE MulCarry(_, _, _)
MulCarry(w, k, carry) ==
    IF w = <<>> THEN Wide(carry)
    ELSE <<(Head(w) * k + carry) % Base>>
         \o MulCarry(Tail(w), k, (Head(w) * k + carry) \div Base)
\* w * k for a machine integer k <= Base
MulSmall(w, k) == Trim(MulCarry(w, k, 0))

RECURSIVE AddCarry(_, _)
AddCarry(w, carry) ==
    IF carry = 0 THEN w
    ELSE IF w = <<>> THEN <<carry>>
    ELSE <<(Head(w) + carry) % Base>>
         \o AddCarry(Tail(w), (Head(w) + carry) \div Base)
\* w + 1
Increment(w) == AddCarry(w, 1)

RECURSIVE DivDigits(_, _)
\* long division of w by a machine integer k <= Base, most significant
\* digit first: [q |-> quotient digits, r |-> remainder]
DivDigits(w, k) ==
    IF w = <<>> THEN [q |-> <<>>, r |-> 0]
    ELSE LET high == DivDigits(Tail(w), k)
             cur == Base * high.r + Head(w)
         IN  [q |-> <<cur \div k>> \o high.q, r |-> cur % k]
DivSmall(w, k) ==
    LET steps == DivDigits(w, k)
    IN  [q |-> Trim(steps.q), r |-> steps.r]

IsOdd(w) == w # <<>> /\ w[1] % 2 = 1

\* w * 2^n
ShiftLeft(w, n) ==
    IF w = <<>> THEN <<>>
    ELSE [i \in 1..(n \div DigitBits) |-> 0] \o MulSmall(w, 2 ^ (n % DigitBits))

\* w \div 2^n, and whether w is not a multiple of 2^n:
\* [q |-> quotient, inexact |-> BOOLEAN]
ShiftRight(w, n) ==
    LET whole == Min(n \div DigitBits, Len(w))
        part == DivSmall(SubSeq(w, whole + 1, Len(w)), 2 ^ (n % DigitBits))
    IN  [q |-> part.q,
         inexact |-> part.r # 0 \/ \E i \in 1..whole : w[i] # 0]

\* w % 2^n
LowBits(w, n) ==
    LET full == n \div DigitBits
    IN  IF full >= Len(w) THEN w
        ELSE Trim(SubSeq(w, 1, full) \o <<w[full + 1] % (2 ^ (n % DigitBits))>>)

\* width of the significand of a double
MantissaBits == 53

\* round-to-nearest, ties-to-even, of num * 2^ex to MantissaBits significant
\* bits; sticky says that the exact value lies strictly above num * 2^ex
RoundToDouble(num, sticky, ex) ==
    LET drop == BitLen(num) - MantissaBits
    IN  IF drop <= 0 THEN [m |-> num, e |-> ex]
        ELSE LET upper == ShiftRight(num, drop - 1)
                 kept == ShiftRight(upper.q, 1).q
                 half == IsOdd(upper.q)
                 rest == sticky \/ upper.inexact
                 up == half /\ (rest \/ IsOdd(kept))
             IN  [m |-> IF up THEN Increment(kept) ELSE kept, e |-> ex + drop]

\* the double nearest to t / 1000: the float a time of t milliseconds is
\* given as.  The dividend is widened so that the quotient has more than
\* MantissaBits binary digits.
FloatOfMillis(t) ==
    LET shift == MantissaBits + 13 - BitLen(Wide(t))
        quot == DivSmall(ShiftLeft(Wide(t), shift), 1000)
    IN  RoundToDouble(quot.q, quot.r # 0, 0 - shift)

\* floor(x) as an integer
FloatFloor(x) ==
    IF x.e >= 0 THEN WideVal(ShiftLeft(x.m, x.e))
    ELSE WideVal(ShiftRight(x.m, 0 - x.e).q)

\* x % 1 (fmod, exact)
FloatMod1(x) ==
    IF x.e >= 0 THEN [m |-> <<>>, e |-> 0]
    ELSE [m |-> LowBits(x.m, 0 - x.e), e |-> x.e]

\* x * k for an integer k, correctly rounded
FloatMul(x, k) == RoundToDouble(MulSmall(x.m, k), FALSE, x.e)

\* int(x // k) for an integer k: float floor division is exact here
FloatFloorDiv(x, k) == FloatFloor(x) \div k
\* int((x % k) // d) and int(x % k): the remainder is exact (fmod)
FloatModFloorDiv(x, k, d) == (FloatFloor(x) % k) \div d
FloatModFloor(x, k) == FloatFloor(x) % k

(* --------------------------- caption text ----------------------------- *)

DigitChar(d) == <<"0", "1", "2", "3", "4", "5", "6", "7", "8", "9">>[d + 1]

RECURSIVE Decimal(_)
\* f"{n}"
Decimal(n) ==
    IF n < 10 THEN <<DigitChar(n)>>
    ELSE Decimal(n \div 10) \o <<DigitChar(n % 10)>>

\* f"{n:0{width}d}"
Padded(n, width) ==
    LET digits == Decimal(n)
    IN  [i \in 1..(Max(width, Len(digits)) - Len(digits)) |-> "0"] \o digits

\* celery_tasks.py:203-209
FormatTimestamp(seconds) ==
    LET hours == FloatFloorDiv(seconds, 3600)
        minutes == FloatModFloorDiv(seconds, 3600, 60)
        secs == FloatModFloor(seconds, 60)
        millis == FloatFloor(FloatMul(FloatMod1(seconds), 1000))
    IN  Padded(hours, 2) \o <<":">> \o Padded(minutes, 2) \o <<":">>
        \o Padded(secs, 2) \o <<",">> \o Padded(millis, 3)

Whitespace == {" ", "\n", "\t"}

RECURSIVE LStrip(_)
LStrip(s) ==
    IF s # <<>> /\ Head(s) \in Whitespace THEN LStrip(Tail(s)) ELSE s

RECURSIVE RStrip(_)
RStrip(s) ==
    IF s # <<>> /\ s[Len(s)] \in Whitespace
    THEN RStrip(SubSeq(s, 1, Len(s) - 1)) ELSE s

\* str.strip()
Strip(s) == RStrip(LStrip(s))

RECURSIVE Join(_, _)
\* sep.join(lines)
Join(sep, lines) ==
    IF lines = <<>> THEN <<>>
    ELSE IF Len(lines) = 1 THEN lines[1]
    ELSE lines[1] \o sep \o Join(sep, Tail(lines))

\* the four lines generate_srt appends for segment i, celery_tasks.py:192-199
SrtBlockLines(i, segment) ==
    << Decimal(i),
       FormatTimestamp(segment.start) \o <<" ", "-", "-", ">", " ">>
           \o FormatTimestamp(segment.end),
       Strip(segment.text),
       <<>> >>

RECURSIVE SrtLines(_, _)
SrtLines(segments, i) ==
    IF i > Len(segments) THEN <<>>
    ELSE SrtBlockLines(i, segments[i]) \o SrtLines(segments, i + 1)

\* celery_tasks.py:188-201
GenerateSrt(segments) == Join(<<"\n">>, SrtLines(segments, 1))

(* ------------------------- transcription result ----------------------- *)

\* what the model runtime returns from model.transcribe for the test audio
\* (celery_tasks.py:163): text, language, duration and timed segments
RawTranscript ==
    [text |-> <<" ", "h", "i">>,
     language |-> "en",
     duration |-> 3,
     segments |-> << [start |-> FloatOfMillis(0), end |-> FloatOfMillis(1500),
                      text |-> <<" ", "h", "i">>] >>]

\* celery_tasks.py:165-183: the dictionary transcribe_with_whisper returns, as
\* an optional value: None when output_format is neither 'txt' nor 'srt'
TranscribeResult(output_format, raw) ==
    IF output_format = "txt"
    THEN Some([format |-> "txt", text |-> Strip(raw.text), srt |-> None,
               language |-> raw.language, duration |-> raw.duration,
               segments_count |-> None])
    ELSE IF output_format = "srt"
    THEN Some([format |-> "srt", text |-> Strip(raw.text),
               srt |-> Some(GenerateSrt(raw.segments)),
               language |-> raw.language, duration |-> raw.duration,
               segments_count |-> Some(Len(raw.segments))])
    ELSE None

(* ------------------------------ the stages ---------------------------- *)

\* what one run of an external tool can do: time out, or exit with a return
\* code and a standard-error text, leaving an output file or not
ToolRuns ==
    {[timeout |-> TRUE, returncode |-> 0, stderr |-> <<>>, file |-> FALSE]}
    \cup {[timeout |-> FALSE, returncode |-> 0, stderr |-> <<>>, file |-> f] :
             f \in BOOLEAN}
    \cup {[timeout |-> FALSE, returncode |-> 1, stderr |-> err, file |-> FALSE] :
             err \in Stderrs}

\* the tool runs the executions of the pipeline meet: success, a non-zero
\* exit with a diagnostic, a timeout
PipelineRuns ==
    {run \in ToolRuns :
        \/ run.timeout
        \/ run.returncode = 0 /\ run.file
        \/ run.returncode # 0 /\ run.stderr # <<>>}

\* a download that reports a timeout as a failure of the tool
DownloadTimeoutWrapped(run) ==
    IF run.timeout \/ run.returncode # 0
    THEN [raised |-> TRUE, msg |-> MsgDownloadWrap(MsgYtdlpFailed(run.stderr))]
    ELSE IF run.file
    THEN [raised |-> FALSE, msg |-> <<>>]
    ELSE [raised |-> TRUE, msg |-> MsgDownloadWrap(MsgOutputMissing)]

\* celery_tasks.py:71-108: [raised |-> BOOLEAN, msg |-> str(exception)]
DownloadVideoAudio(run) ==
    IF run.timeout
    THEN [raised |-> TRUE, msg |-> MsgDownloadTimeout]
    ELSE IF run.returncode # 0
    THEN [raised |-> TRUE, msg |-> MsgDownloadWrap(MsgYtdlpFailed(run.stderr))]
    ELSE IF run.file
    THEN [raised |-> FALSE, msg |-> <<>>]
    ELSE [raised |-> TRUE, msg |-> MsgDownloadWrap(MsgOutputMissing)]

\* celery_tasks.py:110-140
ProcessAudioWithFfmpeg(run) ==
    IF run.timeout
    THEN [raised |-> TRUE, msg |-> MsgFfmpegTimeout]
    ELSE IF run.returncode # 0
    THEN [raised |-> TRUE, msg |-> MsgFfmpegWrap(MsgFfmpegFailed(run.stderr))]
    ELSE [raised |-> FALSE, msg |-> <<>>]

(* ------------------------------- state -------------------------------- *)

VARIABLES
    store,           \* Redis: job id -> optional task_data record
    api,             \* create_task's position for each job id
    request,         \* the TaskRequest of each submitted job
    queue,           \* job ids whose message waits in the Celery queue
    delivered,       \* how many times each job's message was delivered
    dirs,            \* scratch directories that exist on disk
    faults,          \* failures of the environment so far
    now,             \* datetime.utcnow(), in seconds
    expires,         \* Redis: job id -> optional time the key expires at
    whisper_models,  \* celery_tasks.py:44: variant -> optional model instance
    load_calls,      \* whisper.load_model calls made so far, per variant
    pc,              \* each executor's position in process_video_task
    task,            \* the arguments of the execution (optional)
    temp_dir,        \* process_video_task's temp_dir (optional)
    call,            \* the update_task_status call in progress
    exc,             \* the exception being handled (optional str(e))
    model,           \* transcribe_with_whisper's model (optional instance)
    outcome,         \* how process_video_task ended
    cleanup,         \* what the finally block did
    stages,          \* the stages this execution invoked, in order
    writes,          \* the update_task_status calls of this execution
    segments,        \* generate_srt: input
    srt,             \* generate_srt: output (optional)
    seconds,         \* format_timestamp: input, in milliseconds
    stamp,           \* format_timestamp: output (optional)
    runs,            \* the stages as functions: two runs of the tool
    errors           \* the stages as functions: their outcomes (optional)

storeVars == <<store, expires, api, request, queue, delivered>>
cacheVars == <<whisper_models, load_calls>>
execVars == <<pc, task, temp_dir, call, exc, model, outcome, cleanup, stages,
              writes>>
captionVars == <<segments, srt, seconds, stamp, runs, errors>>
vars == <<storeVars, dirs, faults, now, cacheVars, execVars, captionVars>>

NoRequest == [video_url |-> "", output_format |-> "", language |-> None,
              model_size |-> ""]
NoCall == [status |-> "", progress |-> None, result |-> None, error |-> None,
           ret |-> "", read |-> None]
NoOutcome == [kind |-> "running", result |-> None, error |-> None]

\* the requests the submission boundary accepts (main.py:37-41), a sample
Requests ==
    {[video_url |-> "https://v/1", output_format |-> "txt",
      language |-> None, model_size |-> "tiny"],
     [video_url |-> "https://v/2", output_format |-> "srt",
      language |-> Some("en"), model_size |-> "small"]}

\* main.py:125-129 and celery_tasks.py:63-67: 3600 * 24, the lifetime setex
\* gives the key
Ttl == 3600 * 24
\* the clock advances in steps of one lifetime
TickSeconds == Ttl

InitPipeline ==
    /\ store = [j \in JobIds |-> None]
    /\ expires = [j \in JobIds |-> None]
    /\ now = 0
    /\ api = [j \in JobIds |-> IF j <= NumJobs THEN "new" ELSE "unused"]
    /\ request = [j \in JobIds |-> NoRequest]
    /\ queue = {}
    /\ delivered = [j \in JobIds |-> 0]
    /\ dirs = {}
    /\ faults = 0
    /\ whisper_models = [v \in ModelSizes |-> None]
    /\ load_calls = [v \in ModelSizes |-> 0]
    /\ pc = [e \in Execs |-> "idle"]
    /\ task = [e \in Execs |-> None]
    /\ temp_dir = [e \in Execs |-> None]
    /\ call = [e \in Execs |-> NoCall]
    /\ exc = [e \in Execs |-> None]
    /\ model = [e \in Execs |-> None]
    /\ outcome = [e \in Execs |-> NoOutcome]
    /\ cleanup = [e \in Execs |-> "none"]
    /\ stages = [e \in Execs |-> <<>>]
    /\ writes = [e \in Execs |-> <<>>]

\* a run in which the tool succeeds
GoodRun == [timeout |-> FALSE, returncode |-> 0, stderr |-> <<>>, file |-> TRUE]

InitStages ==
    /\ runs = <<GoodRun, GoodRun>>
    /\ errors = None

InitCaption ==
    /\ segments = <<>>
    /\ srt = None
    /\ seconds = 0
    /\ stamp = None
    /\ InitStages

Init == InitPipeline /\ InitCaption

(* ----------------------------- environment --------------------------- *)

\* the environment fails once more
Fault == faults < MaxFaults /\ faults' = faults + 1
NoFault == UNCHANGED faults

(* ----------------------- submission boundary -------------------------- *)

\* main.py:112-122
NewTaskData(j, req) ==
    [task_id |-> j,
     video_url |-> req.video_url,
     output_format |-> req.output_format,
     language |-> req.language,
     model_size |-> req.model_size,
     status |-> "processing",
     progress |-> Some(ProgSubmitted),
     created_at |-> now,
     updated_at |-> now,
     result |-> None,
     error |-> None]

\* main.py:107-129: create_task builds the record and stores it; a failing
\* setex ends the request with HTTP 500 before anything is enqueued
CreateTaskStore(j) ==
    /\ api[j] = "new"
    /\ \A i \in JobIds : i < j => api[i] # "new"
    /\ \E req \in Requests :
          /\ request' = [request EXCEPT ![j] = req]
          /\ \/ /\ store' = [store EXCEPT ![j] = Some(NewTaskData(j, req))]
                /\ expires' = [expires EXCEPT ![j] = Some(now + Ttl)]
                /\ api' = [api EXCEPT ![j] = "stored"]
                /\ NoFault
             \/ /\ api' = [api EXCEPT ![j] = "error"]
                /\ Fault
                /\ UNCHANGED <<store, expires>>
    /\ UNCHANGED <<queue, delivered, dirs, now, cacheVars, execVars,
                   captionVars>>

\* a create_task that enqueues the job without having stored its record
EnqueueBeforeStore(j) ==
    /\ api[j] = "new"
    /\ \A i \in JobIds : i < j => api[i] # "new"
    /\ \E req \in Requests : request' = [request EXCEPT ![j] = req]
    /\ api' = [api EXCEPT ![j] = "enqueued"]
    /\ queue' = queue \cup {j}
    /\ UNCHANGED <<store, expires, delivered, dirs, faults, now, cacheVars,
                   execVars, captionVars>>

\* main.py:131-136: process_video_task.apply_async
CreateTaskEnqueue(j) ==
    /\ api[j] = "stored"
    /\ api' = [api EXCEPT ![j] = "enqueued"]
    /\ queue' = queue \cup {j}
    /\ UNCHANGED <<store, expires, request, delivered, dirs, faults, now,
                   cacheVars, execVars, captionVars>>

\* main.py:179-191: delete_task
DeleteTask(j) ==
    /\ store[j] # None
    /\ store' = [store EXCEPT ![j] = None]
    /\ expires' = [expires EXCEPT ![j] = None]
    /\ UNCHANGED <<api, request, queue, delivered, dirs, faults, now, cacheVars,
                   execVars, captionVars>>

\* the record's time-to-live runs out (setex, main.py:125 and
\* celery_tasks.py:63)
Expire(j) ==
    /\ store[j] # None
    /\ now >= TheValue(expires[j])
    /\ store' = [store EXCEPT ![j] = None]
    /\ expires' = [expires EXCEPT ![j] = None]
    /\ UNCHANGED <<api, request, queue, delivered, dirs, faults, now, cacheVars,
                   execVars, captionVars>>

\* time passes
Tick ==
    /\ now < MaxTicks * TickSeconds
    /\ now' = now + TickSeconds
    /\ UNCHANGED <<storeVars, dirs, faults, cacheVars, execVars, captionVars>>

(* ------------------------------ job queue ----------------------------- *)

RECURSIVE SumTo(_, _)
SumTo(f, n) == IF n = 0 THEN 0 ELSE f[n] + SumTo(f, n - 1)
\* deliveries made so far
Deliveries == SumTo(delivered, NumJobs)

\* the queue hands the message of an already delivered job out again
\* (at-least-once delivery)
Redeliver(j) ==
    /\ delivered[j] >= 1
    /\ Deliveries < MaxDeliveries
    /\ j \notin queue
    /\ queue' = queue \cup {j}
    /\ UNCHANGED <<store, expires, api, request, delivered, dirs, faults, now,
                   cacheVars, execVars, captionVars>>

(* -------------------------- update_task_status ------------------------ *)

\* a merge that leaves updated_at as it was read
MergedStale(task_data, status, progress, result, error) ==
    [task_data EXCEPT
        !.status = status,
        !.progress = IF Truthy(progress) THEN progress ELSE @,
        !.result = IF result # None THEN result ELSE @,
        !.error = IF Truthy(error) THEN error ELSE @]

\* a merge that sets the status and drops the error message
MergedWithoutError(task_data, status, progress, result, error) ==
    [task_data EXCEPT
        !.status = status,
        !.updated_at = now,
        !.progress = IF Truthy(progress) THEN progress ELSE @,
        !.result = IF result # None THEN result ELSE @]

\* celery_tasks.py:52-61: the record update_task_status writes back
MergedTaskData(task_data, status, progress, result, error) ==
    [task_data EXCEPT
        !.status = status,
        !.updated_at = now,
        !.progress = IF Truthy(progress) THEN progress ELSE @,
        !.result = IF result # None THEN result ELSE @,
        !.error = IF Truthy(error) THEN error ELSE @]

\* process_video_task calls update_task_status(task_id, status, progress,
\* result, error) and continues at ret when the call returns
StartUpdate(e, status, progress, result, error, ret) ==
    /\ pc' = [pc EXCEPT ![e] = "update_get"]
    /\ call' = [call EXCEPT ![e] =
                   [status |-> status, progress |-> progress,
                    result |-> result, error |-> error, ret |-> ret,
                    read |-> None]]

\* one entry of the log of update_task_status calls
WriteEntry(c) == [status |-> c.status, progress |-> c.progress]

\* update_task_status returns to its caller
EndUpdate(e) ==
    /\ pc' = [pc EXCEPT ![e] = call[e].ret]
    /\ call' = [call EXCEPT ![e] = NoCall]
    /\ writes' = [writes EXCEPT ![e] = Append(@, WriteEntry(call[e]))]

\* celery_tasks.py:50-51: redis_client.get; a missing record ends the call,
\* and so does an exception of the client (line 68)
UpdateGet(e) ==
    /\ pc[e] = "update_get"
    /\ LET j == TheValue(task[e]).task_id
       IN  \/ /\ store[j] # None
              /\ pc' = [pc EXCEPT ![e] = "update_set"]
              /\ call' = [call EXCEPT ![e].read = store[j]]
              /\ NoFault
              /\ UNCHANGED writes
           \/ /\ store[j] = None
              /\ NoFault
              /\ EndUpdate(e)
           \/ /\ Fault
              /\ EndUpdate(e)
    /\ UNCHANGED <<storeVars, now, dirs, cacheVars, task, temp_dir, exc, model,
                   outcome, cleanup, stages, captionVars>>

\* an update that writes the merged record under every job's key
UpdateSetEveryKey(e) ==
    /\ pc[e] = "update_set"
    /\ LET c == call[e]
           merged == MergedTaskData(TheValue(c.read), c.status, c.progress,
                                    c.result, c.error)
       IN  \/ /\ store' = [j \in JobIds |-> Some(merged)]
              /\ expires' = [j \in JobIds |-> Some(now + Ttl)]
              /\ NoFault
              /\ EndUpdate(e)
           \/ /\ Fault
              /\ EndUpdate(e)
              /\ UNCHANGED <<store, expires>>
    /\ UNCHANGED <<api, request, queue, delivered, dirs, now, cacheVars, task,
                   temp_dir, exc, model, outcome, cleanup, stages, captionVars>>

\* celery_tasks.py:52-67: merge and redis_client.setex, or an exception of
\* the client (line 68)
UpdateSet(e) ==
    /\ pc[e] = "update_set"
    /\ LET j == TheValue(task[e]).task_id
           c == call[e]
       IN  \/ /\ store' = [store EXCEPT ![j] =
                              Some(MergedTaskData(TheValue(c.read), c.status,
                                                  c.progress, c.result,
                                                  c.error))]
              /\ expires' = [expires EXCEPT ![j] = Some(now + Ttl)]
              /\ NoFault
              /\ EndUpdate(e)
           \/ /\ Fault
              /\ EndUpdate(e)
              /\ UNCHANGED <<store, expires>>
    /\ UNCHANGED <<api, request, queue, delivered, dirs, now, cacheVars, task,
                   temp_dir, exc, model, outcome, cleanup, stages, captionVars>>

(* --------------------------- process_video_task ----------------------- *)

Running(e) == pc[e] \notin {"idle", "done", "killed"}

\* an exception reaches the except clause of process_video_task
Raise(e, msg) ==
    /\ pc' = [pc EXCEPT ![e] = "except"]
    /\ exc' = [exc EXCEPT ![e] = Some(msg)]
    /\ Fault

\* a worker takes a message from the queue: celery_tasks.py:211-217
Pickup(e) ==
    /\ pc[e] \in {"idle", "done"}
    /\ Deliveries < MaxDeliveries
    /\ \E j \in queue :
          /\ queue' = queue \ {j}
          /\ delivered' = [delivered EXCEPT ![j] = @ + 1]
          /\ task' = [task EXCEPT ![e] =
                         Some([task_id |-> j,
                               video_url |-> request[j].video_url,
                               output_format |-> request[j].output_format,
                               language |-> request[j].language,
                               model_size |-> request[j].model_size])]
    /\ pc' = [pc EXCEPT ![e] = "mkdtemp"]
    /\ temp_dir' = [temp_dir EXCEPT ![e] = None]
    /\ call' = [call EXCEPT ![e] = NoCall]
    /\ exc' = [exc EXCEPT ![e] = None]
    /\ model' = [model EXCEPT ![e] = None]
    /\ outcome' = [outcome EXCEPT ![e] = NoOutcome]
    /\ cleanup' = [cleanup EXCEPT ![e] = "none"]
    /\ stages' = [stages EXCEPT ![e] = <<>>]
    /\ writes' = [writes EXCEPT ![e] = <<>>]
    /\ UNCHANGED <<store, expires, api, request, dirs, faults, now, cacheVars,
                   captionVars>>

\* a mkdtemp that may hand out the name of a directory that exists
MkdtempReuses(e) ==
    /\ pc[e] = "mkdtemp"
    /\ \E d \in DirNames :
          /\ dirs' = dirs \cup {d}
          /\ temp_dir' = [temp_dir EXCEPT ![e] = Some(d)]
          /\ StartUpdate(e, "processing", Some(ProgDownload), None, None,
                         "download")
          /\ NoFault
          /\ UNCHANGED exc
    /\ UNCHANGED <<storeVars, now, cacheVars, task, model, outcome, cleanup,
                   stages, writes, captionVars>>

\* celery_tasks.py:221-225: tempfile.mkdtemp makes a directory that did not
\* exist, or raises
Mkdtemp(e) ==
    /\ pc[e] = "mkdtemp"
    /\ \/ \E d \in DirNames \ dirs :
             /\ dirs' = dirs \cup {d}
             /\ temp_dir' = [temp_dir EXCEPT ![e] = Some(d)]
             /\ StartUpdate(e, "processing", Some(ProgDownload), None, None,
                            "download")
             /\ NoFault
             /\ UNCHANGED exc
       \/ /\ Raise(e, MsgMkdtemp)
          /\ UNCHANGED <<dirs, temp_dir, call>>
    /\ UNCHANGED <<storeVars, now, cacheVars, task, model, outcome, cleanup, stages,
                   writes, captionVars>>

\* an executor that goes on to the next stage after a failed download
DownloadKeepsGoing(e) ==
    /\ pc[e] = "download"
    /\ stages' = [stages EXCEPT ![e] = Append(@, "download")]
    /\ \E run \in PipelineRuns :
          LET r == DownloadVideoAudio(run)
          IN  /\ StartUpdate(e, "processing", Some(ProgFfmpeg), None, None,
                             "ffmpeg")
              /\ IF r.raised
                 THEN exc' = [exc EXCEPT ![e] = Some(r.msg)] /\ Fault
                 ELSE UNCHANGED exc /\ NoFault
    /\ UNCHANGED <<storeVars, now, dirs, cacheVars, task, temp_dir, model, outcome,
                   cleanup, writes, captionVars>>

\* celery_tasks.py:226-231
Download(e) ==
    /\ pc[e] = "download"
    /\ stages' = [stages EXCEPT ![e] = Append(@, "download")]
    /\ \E run \in PipelineRuns :
          LET r == DownloadVideoAudio(run)
          IN  IF r.raised
              THEN Raise(e, r.msg) /\ UNCHANGED call
              ELSE /\ StartUpdate(e, "processing", Some(ProgFfmpeg), None, None,
                                  "ffmpeg")
                   /\ NoFault
                   /\ UNCHANGED exc
    /\ UNCHANGED <<storeVars, now, dirs, cacheVars, task, temp_dir, model, outcome,
                   cleanup, writes, captionVars>>

\* celery_tasks.py:232-237
Ffmpeg(e) ==
    /\ pc[e] = "ffmpeg"
    /\ stages' = [stages EXCEPT ![e] = Append(@, "ffmpeg")]
    /\ \E run \in PipelineRuns :
          LET r == ProcessAudioWithFfmpeg(run)
          IN  IF r.raised
              THEN Raise(e, r.msg) /\ UNCHANGED call
              ELSE /\ StartUpdate(e, "processing",
                                  Some(ProgWhisper(
                                           TheValue(task[e]).model_size)),
                                  None, None, "whisper_check")
                   /\ NoFault
                   /\ UNCHANGED exc
    /\ UNCHANGED <<storeVars, now, dirs, cacheVars, task, temp_dir, model, outcome,
                   cleanup, writes, captionVars>>

\* celery_tasks.py:147: whether the variant has to be loaded
NeedsLoad(model_size) == whisper_models[model_size] = None

\* celery_tasks.py:238 and 145-147: transcribe_with_whisper is entered and
\* tests whether the variant is cached
WhisperCheck(e) ==
    /\ pc[e] = "whisper_check"
    /\ stages' = [stages EXCEPT ![e] = Append(@, "whisper")]
    /\ pc' = [pc EXCEPT ![e] =
                 IF NeedsLoad(TheValue(task[e]).model_size)
                 THEN "whisper_load" ELSE "whisper_run"]
    /\ UNCHANGED <<storeVars, now, dirs, faults, cacheVars, task, temp_dir, call,
                   exc, model, outcome, cleanup, writes, captionVars>>

\* a load that leaves an unusable entry in the cache when it fails
WhisperLoadKeepsBroken(e) ==
    /\ pc[e] = "whisper_load"
    /\ LET v == TheValue(task[e]).model_size
       IN  /\ load_calls' = [load_calls EXCEPT ![v] = @ + 1]
           /\ \/ /\ whisper_models' =
                       [whisper_models EXCEPT ![v] = Some(load_calls[v] + 1)]
                 /\ pc' = [pc EXCEPT ![e] = "whisper_run"]
                 /\ NoFault
                 /\ UNCHANGED exc
              \/ /\ Raise(e, MsgWhisperWrap(MsgLoadModel))
                 /\ whisper_models' = [whisper_models EXCEPT ![v] = Some(0)]
    /\ UNCHANGED <<storeVars, now, dirs, task, temp_dir, call, model, outcome,
                   cleanup, stages, writes, captionVars>>

\* celery_tasks.py:148-149: whisper.load_model returns a new instance, which
\* is stored in the cache, or raises (line 185)
WhisperLoad(e) ==
    /\ pc[e] = "whisper_load"
    /\ LET v == TheValue(task[e]).model_size
       IN  /\ load_calls' = [load_calls EXCEPT ![v] = @ + 1]
           /\ \/ /\ whisper_models' =
                       [whisper_models EXCEPT ![v] = Some(load_calls[v] + 1)]
                 /\ pc' = [pc EXCEPT ![e] = "whisper_run"]
                 /\ NoFault
                 /\ UNCHANGED exc
              \/ /\ Raise(e, MsgWhisperWrap(MsgLoadModel))
                 /\ UNCHANGED whisper_models
    /\ UNCHANGED <<storeVars, now, dirs, task, temp_dir, call, model, outcome,
                   cleanup, stages, writes, captionVars>>

\* celery_tasks.py:151-186 and 244-252: the cached model transcribes, or the
\* inference raises
WhisperRun(e) ==
    /\ pc[e] = "whisper_run"
    /\ LET t == TheValue(task[e])
       IN  /\ model' = [model EXCEPT ![e] = whisper_models[t.model_size]]
           /\ \/ /\ StartUpdate(e, "completed", Some(ProgDone),
                                TranscribeResult(t.output_format,
                                                 RawTranscript),
                                None, "return")
                 /\ NoFault
                 /\ UNCHANGED exc
              \/ /\ Raise(e, MsgWhisperWrap(MsgInference))
                 /\ UNCHANGED call
    /\ UNCHANGED <<storeVars, now, dirs, cacheVars, task, temp_dir, outcome, cleanup,
                   stages, writes, captionVars>>

\* celery_tasks.py:254-255
Return(e) ==
    /\ pc[e] = "return"
    /\ outcome' = [outcome EXCEPT ![e] =
                      [kind |-> "returned",
                       result |-> TranscribeResult(
                                      TheValue(task[e]).output_format,
                                      RawTranscript),
                       error |-> None]]
    /\ pc' = [pc EXCEPT ![e] = "finally"]
    /\ UNCHANGED <<storeVars, now, dirs, faults, cacheVars, task, temp_dir, call,
                   exc, model, cleanup, stages, writes, captionVars>>

\* celery_tasks.py:257-260
Except(e) ==
    /\ pc[e] = "except"
    /\ StartUpdate(e, "failed", None, None, exc[e], "reraise")
    /\ UNCHANGED <<storeVars, now, dirs, faults, cacheVars, task, temp_dir, exc,
                   model, outcome, cleanup, stages, writes, captionVars>>

\* celery_tasks.py:261
Reraise(e) ==
    /\ pc[e] = "reraise"
    /\ outcome' = [outcome EXCEPT ![e] =
                      [kind |-> "raised", result |-> None, error |-> exc[e]]]
    /\ pc' = [pc EXCEPT ![e] = "finally"]
    /\ UNCHANGED <<storeVars, now, dirs, faults, cacheVars, task, temp_dir, call,
                   exc, model, cleanup, stages, writes, captionVars>>

\* a cleanup that is skipped when an exception is being handled
CleanupOnSuccess(e) ==
    temp_dir[e] # None /\ TheValue(temp_dir[e]) \in dirs /\ exc[e] = None

\* celery_tasks.py:265
CleanupNeeded(e) == temp_dir[e] # None /\ TheValue(temp_dir[e]) \in dirs

\* a finally block that lets the exception of shutil.rmtree escape
FinallyRaises(e) ==
    /\ pc[e] = "finally"
    /\ IF CleanupNeeded(e)
       THEN \/ /\ dirs' = dirs \ temp_dir[e]
               /\ cleanup' = [cleanup EXCEPT ![e] = "removed"]
               /\ NoFault
               /\ UNCHANGED outcome
            \/ /\ cleanup' = [cleanup EXCEPT ![e] = "rmtree_failed"]
               /\ outcome' = [outcome EXCEPT ![e] =
                                 [kind |-> "raised", result |-> None,
                                  error |-> Some(<<"rmtree: OSError">>)]]
               /\ Fault
               /\ UNCHANGED dirs
       ELSE /\ cleanup' = [cleanup EXCEPT ![e] = "skipped"]
            /\ NoFault
            /\ UNCHANGED <<dirs, outcome>>
    /\ pc' = [pc EXCEPT ![e] = "done"]
    /\ UNCHANGED <<storeVars, now, cacheVars, task, temp_dir, call, exc, model,
                   stages, writes, captionVars>>

\* celery_tasks.py:263-270: shutil.rmtree removes the directory, or raises
\* and the exception is logged
Finally(e) ==
    /\ pc[e] = "finally"
    /\ IF CleanupNeeded(e)
       THEN \/ /\ dirs' = dirs \ temp_dir[e]
               /\ cleanup' = [cleanup EXCEPT ![e] = "removed"]
               /\ NoFault
            \/ /\ cleanup' = [cleanup EXCEPT ![e] = "rmtree_failed"]
               /\ Fault
               /\ UNCHANGED dirs
       ELSE /\ cleanup' = [cleanup EXCEPT ![e] = "skipped"]
            /\ NoFault
            /\ UNCHANGED dirs
    /\ pc' = [pc EXCEPT ![e] = "done"]
    /\ UNCHANGED <<storeVars, now, cacheVars, task, temp_dir, call, exc, model,
                   outcome, stages, writes, captionVars>>

\* celery_tasks.py:32: the soft time limit raises SoftTimeLimitExceeded in
\* the task, here between two statements of the try block.  Raised inside
\* update_task_status it is caught at line 68 (the failing branches of
\* UpdateGet and UpdateSet), raised inside shutil.rmtree it is caught at line
\* 269 (the failing branch of Finally).
Interrupt(e) ==
    /\ pc[e] \in {"download", "ffmpeg", "whisper_check", "return"}
    /\ Raise(e, MsgSoftTimeLimit)
    /\ UNCHANGED <<storeVars, now, dirs, cacheVars, task, temp_dir, call, model,
                   outcome, cleanup, stages, writes, captionVars>>

\* celery_tasks.py:31: at the hard time limit the pool kills the worker
\* process; its local variables are gone, what it left on disk stays
HardKill(e) ==
    /\ Running(e)
    /\ Fault
    /\ pc' = [pc EXCEPT ![e] = "killed"]
    /\ task' = [task EXCEPT ![e] = None]
    /\ temp_dir' = [temp_dir EXCEPT ![e] = None]
    /\ call' = [call EXCEPT ![e] = NoCall]
    /\ exc' = [exc EXCEPT ![e] = None]
    /\ model' = [model EXCEPT ![e] = None]
    /\ stages' = [stages EXCEPT ![e] = <<>>]
    /\ writes' = [writes EXCEPT ![e] = <<>>]
    /\ UNCHANGED <<storeVars, now, dirs, cacheVars, outcome, cleanup, captionVars>>

(* ---------------------------- specification --------------------------- *)

Next ==
    \/ \E j \in JobIds : CreateTaskStore(j)
    \/ \E j \in JobIds : CreateTaskEnqueue(j)
    \/ \E j \in JobIds : DeleteTask(j)
    \/ \E j \in JobIds : Expire(j)
    \/ Tick
    \/ \E j \in JobIds : Redeliver(j)
    \/ \E e \in Execs : Pickup(e)
    \/ \E e \in Execs : Mkdtemp(e)
    \/ \E e \in Execs : UpdateGet(e)
    \/ \E e \in Execs : UpdateSet(e)
    \/ \E e \in Execs : Download(e)
    \/ \E e \in Execs : Ffmpeg(e)
    \/ \E e \in Execs : WhisperCheck(e)
    \/ \E e \in Execs : WhisperLoad(e)
    \/ \E e \in Execs : WhisperRun(e)
    \/ \E e \in Execs : Return(e)
    \/ \E e \in Execs : Except(e)
    \/ \E e \in Execs : Reraise(e)
    \/ \E e \in Execs : Finally(e)
    \/ \E e \in Execs : Interrupt(e)
    \/ \E e \in Execs : HardKill(e)

Spec == Init /\ [][Next]_vars

(* ----------------- format_timestamp as a pure function ----------------- *)

\* times up to MaxMillis milliseconds, and three long ones
MaxMillis == 1200
TimestampInputs == 0..MaxMillis \cup {3661250, 359999999, 360000000}

InitTimestamp ==
    /\ InitPipeline
    /\ segments = <<>>
    /\ srt = None
    /\ seconds \in TimestampInputs
    /\ stamp = None
    /\ InitStages

\* celery_tasks.py:203-209: format_timestamp is called with the float nearest
\* to seconds / 1000
FormatTimestampCall ==
    /\ stamp = None
    /\ stamp' = Some(FormatTimestamp(FloatOfMillis(seconds)))
    /\ UNCHANGED <<storeVars, dirs, faults, now, cacheVars, execVars, segments,
                   srt, seconds, runs, errors>>

SpecTimestamp == InitTimestamp /\ [][FormatTimestampCall]_vars

(* ------------------- generate_srt as a pure function ------------------- *)

\* longest segment list
MaxSegs == 3

\* segments as model.transcribe returns them: start and end are floats
SampleSegments ==
    {[start |-> FloatOfMillis(0), end |-> FloatOfMillis(1500),
      text |-> <<"h", "e", "l", "l", "o">>],
     [start |-> FloatOfMillis(1500), end |-> FloatOfMillis(3000),
      text |-> <<"w", "o", "r", "l", "d">>],
     [start |-> FloatOfMillis(3000), end |-> FloatOfMillis(3661250),
      text |-> <<" ", "h", "i", " ">>],
     [start |-> FloatOfMillis(3000), end |-> FloatOfMillis(3000),
      text |-> <<>>]}

RECURSIVE SeqsUpTo(_, _)
\* the sequences over S of length at most n
SeqsUpTo(S, n) ==
    IF n = 0 THEN {<<>>}
    ELSE LET shorter == SeqsUpTo(S, n - 1)
         IN  shorter \cup {Append(q, x) : q \in shorter, x \in S}

InitSrt ==
    /\ InitPipeline
    /\ segments \in SeqsUpTo(SampleSegments, MaxSegs)
    /\ srt = None
    /\ seconds = 0
    /\ stamp = None
    /\ InitStages

\* celery_tasks.py:188-201
GenerateSrtCall ==
    /\ srt = None
    /\ srt' = Some(GenerateSrt(segments))
    /\ UNCHANGED <<storeVars, dirs, faults, now, cacheVars, execVars, segments,
                   seconds, stamp, runs, errors>>

SpecSrt == InitSrt /\ [][GenerateSrtCall]_vars

(* ------------------------------ properties ---------------------------- *)

\* the stored record of job j, when there is one
Record(j) == TheValue(store[j])
HasRecord(j) == store[j] # None
\* the job an execution works on
JobOf(e) == TheValue(task[e]).task_id

\* C1: every stored record with status completed has a result and no error,
\* and every stored record with status failed has an error and no result.
C1_TerminalRecordMatchesOutcome ==
    \A j \in JobIds :
        HasRecord(j) =>
            /\ Record(j).status = "completed" =>
                  Record(j).result # None /\ Record(j).error = None
            /\ Record(j).status = "failed" =>
                  Record(j).error # None /\ Record(j).result = None

\* C2: every stored record with status processing has neither a result nor
\* an error.
C2_ProcessingHasNoOutcome ==
    \A j \in JobIds :
        HasRecord(j) /\ Record(j).status = "processing" =>
            Record(j).result = None /\ Record(j).error = None

\* C3: once a stored record has status failed or completed, no step changes
\* the status of that record.
C3_TerminalAbsorbing ==
    [][\A j \in JobIds :
          /\ HasRecord(j)
          /\ Record(j).status \in {"failed", "completed"}
          /\ store'[j] # None
          => TheValue(store'[j]).status = Record(j).status]_vars

\* celery_tasks.py:227, 233, 238: the stages in the order of the code
StageOrder == <<"download", "ffmpeg", "whisper">>

\* C4: a step of an execution that invokes a stage invokes the one that
\* follows the stages invoked so far in the order download, ffmpeg, whisper,
\* no exception has been raised in the execution before, and every stage
\* invoked so far has returned and been followed by its progress update.
C4_StagesInOrder ==
    [][\A e \in Execs :
          stages'[e] # stages[e] /\ stages'[e] # <<>> =>
             /\ Len(stages[e]) < Len(StageOrder)
             /\ stages'[e] = SubSeq(StageOrder, 1, Len(stages[e]) + 1)
             /\ exc[e] = None
             /\ Len(writes[e]) = Len(stages[e]) + 1
             /\ \A i \in 1..Len(writes[e]) : writes[e][i].status = "processing"]_vars

\* C4 witness: an execution whose download timed out has finished, and the
\* download is the only stage it invoked.
C4_Witness ==
    \E e \in Execs :
        /\ pc[e] = "done"
        /\ exc[e] = Some(MsgDownloadTimeout)
        /\ stages[e] = <<"download">>

StageErrors ==
    {DownloadVideoAudio(run).msg : run \in {r \in ToolRuns :
                                               DownloadVideoAudio(r).raised}}
    \cup {ProcessAudioWithFfmpeg(run).msg :
             run \in {r \in ToolRuns : ProcessAudioWithFfmpeg(r).raised}}
    \cup {MsgWhisperWrap(MsgLoadModel), MsgWhisperWrap(MsgInference)}

\* s occurs in t as a contiguous part
Contains(t, s) ==
    \E i \in 0..(Len(t) - Len(s)) : SubSeq(t, i + 1, i + Len(s)) = s

\* the message of a non-zero tool exit contains the tool's standard error
DiagnosticKept ==
    \A run \in ToolRuns :
        ~run.timeout /\ run.returncode # 0 =>
            /\ Contains(DownloadVideoAudio(run).msg, run.stderr)
            /\ Contains(ProcessAudioWithFfmpeg(run).msg, run.stderr)

\* the update_task_status call for a stage failure returns to line 261
FailedUpdateReturns(e) ==
    /\ pc[e] \in {"update_get", "update_set"}
    /\ call[e].status = "failed"
    /\ exc[e] # None /\ exc[e] \subseteq StageErrors
    /\ pc'[e] = "reraise"

\* the stored record of job j carries status failed and the message msg
FailedWith(rec, msg) ==
    rec # None /\ TheValue(rec).status = "failed" /\ TheValue(rec).error = msg

C7_SingleFlight ==
    faults = 0 =>
        /\ \A v \in ModelSizes : load_calls[v] <= 1
        /\ \A e1, e2 \in Execs :
              /\ model[e1] # None /\ model[e2] # None
              /\ task[e1] # None /\ task[e2] # None
              /\ TheValue(task[e1]).model_size = TheValue(task[e2]).model_size
              => model[e1] = model[e2]

\* C8: the step through the finally block, whether shutil.rmtree fails or
\* not, ends the execution, writes nothing to the record store, makes no
\* update_task_status call and leaves the outcome of the execution as the
\* return or the re-raise set it.
C8_CleanupFailureSwallowed ==
    [][\A e \in Execs :
          pc[e] = "finally" /\ pc'[e] # "finally" /\ pc'[e] # "killed" =>
             /\ pc'[e] = "done"
             /\ store' = store
             /\ writes'[e] = writes[e]
             /\ outcome'[e] = outcome[e]
             /\ outcome[e].kind \in {"returned", "raised"}
             /\ outcome[e].kind = "raised" => outcome[e].error = exc[e]]_vars

\* C8 witness: shutil.rmtree failed at the end of an execution in which the
\* ffmpeg stage had failed, and the execution raised the stage's error.
C8_Witness ==
    \E e \in Execs :
        /\ pc[e] = "done"
        /\ cleanup[e] = "rmtree_failed"
        /\ outcome[e].kind = "raised"
        /\ outcome[e].error = Some(MsgFfmpegTimeout)

\* the block of segment i as C9 states it: index, time range, trimmed text,
\* each followed by a newline, and the blank separator line
ExpectedBlock(i, segment) ==
    Decimal(i) \o <<"\n">>
    \o FormatTimestamp(segment.start) \o <<" ", "-", "-", ">", " ">>
    \o FormatTimestamp(segment.end) \o <<"\n">>
    \o Strip(segment.text) \o <<"\n", "\n">>

RECURSIVE ExpectedSrt(_, _)
ExpectedSrt(segs, i) ==
    IF i > Len(segs) THEN <<>>
    ELSE ExpectedBlock(i, segs[i]) \o ExpectedSrt(segs, i + 1)

\* C9: generate_srt returns the concatenation, in input order, of one block
\* per segment, every block ending with the blank separator line.
C9_BlocksConcatenated ==
    srt # None => TheValue(srt) = ExpectedSrt(segments, 1)

\* the rendering C10 states for a time of t milliseconds
ExpectedTimestamp(t) ==
    Padded(t \div 3600000, 2) \o <<":">>
    \o Padded((t \div 60000) % 60, 2) \o <<":">>
    \o Padded((t \div 1000) % 60, 2) \o <<",">>
    \o Padded(t % 1000, 3)

\* C10: format_timestamp renders a time of t milliseconds as HH:MM:SS,mmm
\* with mmm = t mod 1000.
C10_MillisExact ==
    stamp # None => TheValue(stamp) = ExpectedTimestamp(seconds)

\* C11: a job is enqueued only by the create_task that stored its record
\* before, a job is delivered only after it was enqueued, and the first write
\* of a record under a job id is the one of create_task.
C11_StoredBeforeEnqueued ==
    [][\A j \in JobIds :
          /\ (api'[j] = "enqueued" /\ api[j] # "enqueued" => api[j] = "stored")
          /\ (api'[j] = "stored" /\ api[j] # "stored" =>
                 api[j] = "new" /\ store'[j] # None)
          /\ (j \in queue' => api'[j] = "enqueued")
          /\ (delivered'[j] > delivered[j] => api[j] = "enqueued")
          /\ (store[j] = None /\ store'[j] # None /\ api[j] \in {"new", "unused"}
                 => api'[j] = "stored")]_vars

\* C11 witness: an execution has picked up a job and the record create_task
\* stored for it is in the store.
C11_Witness ==
    \E e \in Execs :
        /\ pc[e] = "mkdtemp"
        /\ HasRecord(JobOf(e))
        /\ Record(JobOf(e)).progress = Some(ProgSubmitted)

\* the directory an execution holds while it runs
Holds(e, d) == Running(e) /\ temp_dir[e] = Some(d)

\* C12: two running executions never hold the same directory, and a step
\* that removes a directory is a step of the execution that holds it.
C12_WorkspaceExclusive ==
    [][/\ \A e1, e2 \in Execs : \A d \in DirNames :
             e1 # e2 => ~(Holds(e1, d)' /\ Holds(e2, d)')
       /\ \A d \in dirs \ dirs' :
             \E e \in Execs :
                /\ pc[e] = "finally" /\ pc'[e] = "done"
                /\ temp_dir[e] = Some(d)
                /\ \A e2 \in Execs \ {e} : ~Holds(e2, d)]_vars

\* C12 witness: one execution has ended and removed its directory while the
\* directory of another, running execution is on disk.
C12_Witness ==
    \E e1, e2 \in Execs :
        /\ pc[e1] = "done" /\ cleanup[e1] = "removed"
        /\ Running(e2) /\ temp_dir[e2] # None
        /\ temp_dir[e2] # temp_dir[e1]
        /\ TheValue(temp_dir[e2]) \in dirs
        /\ TheValue(temp_dir[e1]) \notin dirs

\* the progress writes in the order of the code
ProgressOrder(e) ==
    << [status |-> "processing", progress |-> Some(ProgDownload)],
       [status |-> "processing", progress |-> Some(ProgFfmpeg)],
       [status |-> "processing",
        progress |-> Some(ProgWhisper(TheValue(task[e]).model_size))] >>

IsTerminalWrite(w) == w.status \in {"completed", "failed"}

\* C13: in an execution of a job that is delivered once and whose record is
\* stored, the update_task_status calls made so far are the progress writes in the order
\* download, ffmpeg, whisper, followed by at most one terminal write, and by
\* exactly one when the execution has ended.
C13_WritesOrdered ==
    \A e \in Execs :
        task[e] # None /\ Deliveries = 1 /\ HasRecord(JobOf(e)) =>
            LET w == writes[e]
                n == Len(w)
                k == IF n > 0 /\ IsTerminalWrite(w[n]) THEN n - 1 ELSE n
            IN  /\ k <= 3
                /\ SubSeq(w, 1, k) = SubSeq(ProgressOrder(e), 1, k)
                /\ pc[e] = "done" => k = n - 1

(* ----------------------- the stages as functions ---------------------- *)

\* longest standard-error text, in tokens
MaxStderr == 2
\* what a tool can write to standard error, the texts of the code's own
\* messages included
StderrTokens == {"E1", "video download timed out"}
WideStderrs == SeqsUpTo(StderrTokens, MaxStderr)

\* the runs of a tool, over the wider standard-error texts
WideToolRuns ==
    {[timeout |-> TRUE, returncode |-> 0, stderr |-> <<>>, file |-> FALSE]}
    \cup {[timeout |-> FALSE, returncode |-> 0, stderr |-> <<>>, file |-> f] :
             f \in BOOLEAN}
    \cup {[timeout |-> FALSE, returncode |-> 1, stderr |-> err,
           file |-> FALSE] : err \in WideStderrs}

InitStageRuns ==
    /\ InitPipeline
    /\ segments = <<>>
    /\ srt = None
    /\ seconds = 0
    /\ stamp = None
    /\ runs \in WideToolRuns \X WideToolRuns
    /\ errors = None

\* celery_tasks.py:71-108 and 110-140: both stages meet each of the two runs
StagesCall ==
    /\ errors = None
    /\ errors' = Some([download |-> <<DownloadVideoAudio(runs[1]),
                                      DownloadVideoAudio(runs[2])>>,
                       ffmpeg |-> <<ProcessAudioWithFfmpeg(runs[1]),
                                    ProcessAudioWithFfmpeg(runs[2])>>])
    /\ UNCHANGED <<storeVars, dirs, faults, now, cacheVars, execVars, segments,
                   srt, seconds, stamp, runs>>

SpecStages == InitStageRuns /\ [][StagesCall]_vars

\* how a run of the download tool ends
DownloadKind(run) ==
    IF run.timeout THEN "timeout"
    ELSE IF run.returncode # 0 THEN "exit"
    ELSE IF run.file THEN "ok" ELSE "missing"

\* how a run of ffmpeg ends
FfmpegKind(run) ==
    IF run.timeout THEN "timeout"
    ELSE IF run.returncode # 0 THEN "exit" ELSE "ok"

\* C14: two runs of the download tool that end in different ways among
\* timeout, non-zero exit and missing output file raise different messages,
\* two runs of ffmpeg that end in different ways among timeout and non-zero
\* exit raise different messages, every run that does not succeed raises,
\* and the message of a non-zero exit contains the tool's standard error.
C14_FailuresDistinct ==
    errors # None =>
        LET got == TheValue(errors)
        IN  /\ \A i \in 1..2 :
                  /\ got.download[i].raised <=> DownloadKind(runs[i]) # "ok"
                  /\ got.ffmpeg[i].raised <=> FfmpegKind(runs[i]) # "ok"
                  /\ ~runs[i].timeout /\ runs[i].returncode # 0 =>
                        /\ Contains(got.download[i].msg, runs[i].stderr)
                        /\ Contains(got.ffmpeg[i].msg, runs[i].stderr)
            /\ (DownloadKind(runs[1]) # DownloadKind(runs[2])
                /\ got.download[1].raised /\ got.download[2].raised
                => got.download[1].msg # got.download[2].msg)
            /\ (FfmpegKind(runs[1]) # FfmpegKind(runs[2])
                /\ got.ffmpeg[1].raised /\ got.ffmpeg[2].raised
                => got.ffmpeg[1].msg # got.ffmpeg[2].msg)

\* C14 witness: one run timed out, the other exited non-zero with the text
\* of the timeout message on standard error, and both stages have met them.
C14_Witness ==
    /\ errors # None
    /\ runs[1].timeout
    /\ runs[2].returncode # 0
    /\ runs[2].stderr = <<"video download timed out">>

\* the setex of an update_task_status call of execution e takes effect
WriteTakesEffect(e) ==
    pc[e] = "update_set" /\ pc'[e] # "update_set" /\ pc'[e] # "killed"
    /\ faults' = faults

\* the fields create_task stores and update_task_status never assigns
SubmissionFields(rec) ==
    [task_id |-> rec.task_id, video_url |-> rec.video_url,
     output_format |-> rec.output_format, language |-> rec.language,
     model_size |-> rec.model_size, created_at |-> rec.created_at]

\* C16: a write of the executor that takes effect stores the record it read
\* merged with the arguments of the call, with updated_at the time of the
\* write, gives the key the full lifetime of 24 hours, and leaves the fields
\* of the submission as the record read has them and as the request gave
\* them; no step changes these fields of a stored record.
C16_WholeRecordRewritten ==
    [][/\ \A e \in Execs :
             WriteTakesEffect(e) =>
                LET j == JobOf(e)
                    read == TheValue(call[e].read)
                    c == call[e]
                    written == TheValue(store'[j])
                IN  /\ store'[j] # None
                    /\ written.status = c.status
                    /\ written.updated_at = now
                    /\ expires'[j] = Some(now + 3600 * 24)
                    /\ SubmissionFields(written) = SubmissionFields(read)
                    /\ SubmissionFields(written)
                          = [task_id |-> j,
                             video_url |-> request[j].video_url,
                             output_format |-> request[j].output_format,
                             language |-> request[j].language,
                             model_size |-> request[j].model_size,
                             created_at |-> read.created_at]
                    /\ written.progress =
                          (IF Truthy(c.progress) THEN c.progress
                           ELSE read.progress)
                    /\ written.result =
                          (IF c.result # None THEN c.result ELSE read.result)
                    /\ written.error =
                          (IF Truthy(c.error) THEN c.error ELSE read.error)
       /\ \A j \in JobIds :
             store[j] # None /\ store'[j] # None =>
                SubmissionFields(TheValue(store'[j]))
                   = SubmissionFields(Record(j))]_vars

\* C16 witness: a record created at time 0 was written by the executor one
\* lifetime later: updated_at is the later time and the key lives for
\* another 24 hours.
C16_Witness ==
    \E j \in JobIds :
        /\ HasRecord(j)
        /\ Record(j).created_at = 0
        /\ Record(j).updated_at = Ttl
        /\ expires[j] = Some(Ttl + Ttl)

\* C17: a step that stores a record under a job id that has none is the
\* step of create_task for that id.
C17_AbsentStaysAbsent ==
    [][\A j \in JobIds :
          store[j] = None /\ store'[j] # None => api[j] = "new"]_vars

\* C18: when the execution of a job that was delivered once has ended and
\* the job's record is stored, the record has status completed or failed.
C18_EndsTerminal ==
    \A e \in Execs :
        pc[e] = "done" /\ Deliveries = 1 /\ HasRecord(JobOf(e)) =>
            Record(JobOf(e)).status \in {"completed", "failed"}

\* the load of execution e raises
LoadRaises(e) == pc[e] = "whisper_load" /\ pc'[e] = "except"

\* C19: a step in which whisper.load_model raises leaves whisper_models as
\* it was, so that the variant still has to be loaded, raises the
\* transcription failure in that execution and changes no other execution;
\* every entry of the cache is an instance a load returned.
C19_FailedLoadLeavesCache ==
    [][/\ \A e \in Execs :
             LoadRaises(e) =>
                /\ whisper_models' = whisper_models
                /\ NeedsLoad(TheValue(task[e]).model_size)'
                      = NeedsLoad(TheValue(task[e]).model_size)
                /\ exc'[e] = Some(MsgWhisperWrap(MsgLoadModel))
                /\ \A e2 \in Execs \ {e} :
                      /\ pc'[e2] = pc[e2]
                      /\ exc'[e2] = exc[e2]
                      /\ outcome'[e2] = outcome[e2]
       /\ \A v \in ModelSizes :
             whisper_models'[v] # None =>
                TheValue(whisper_models'[v]) \in 1..load_calls'[v]]_vars

\* C19 witness: the first load of a variant raised, a later execution
\* loaded the variant again, and the cache holds the second instance.
C19_Witness ==
    \E v \in ModelSizes :
        /\ load_calls[v] = 2
        /\ whisper_models[v] = Some(2)
        /\ \E e \in Execs : exc[e] = Some(MsgWhisperWrap(MsgLoadModel))

(* ------------------------- two jobs in the store ---------------------- *)

\* the request of job j: the first job asks for text, the others for
\* captions
RequestOf(j) ==
    CHOOSE req \in Requests :
        req.output_format = (IF j = 1 THEN "txt" ELSE "srt")

\* create_task has stored and enqueued a job under every id at time 0
\* (main.py:107-136), and the environment can fail once
InitTwoJobs ==
    /\ now = 0
    /\ request = [j \in JobIds |-> RequestOf(j)]
    /\ store = [j \in JobIds |-> Some(NewTaskData(j, RequestOf(j)))]
    /\ expires = [j \in JobIds |-> Some(Ttl)]
    /\ api = [j \in JobIds |-> "enqueued"]
    /\ queue = JobIds
    /\ delivered = [j \in JobIds |-> 0]
    /\ dirs = {}
    /\ faults = MaxFaults - 1
    /\ whisper_models = [v \in ModelSizes |-> None]
    /\ load_calls = [v \in ModelSizes |-> 0]
    /\ pc = [e \in Execs |-> "idle"]
    /\ task = [e \in Execs |-> None]
    /\ temp_dir = [e \in Execs |-> None]
    /\ call = [e \in Execs |-> NoCall]
    /\ exc = [e \in Execs |-> None]
    /\ model = [e \in Execs |-> None]
    /\ outcome = [e \in Execs |-> NoOutcome]
    /\ cleanup = [e \in Execs |-> "none"]
    /\ stages = [e \in Execs |-> <<>>]
    /\ writes = [e \in Execs |-> <<>>]
    /\ InitCaption

\* the worker pool, delete_task, the clock and the expiry of keys; nothing
\* is submitted or delivered again
NextTwoJobs ==
    \/ \E j \in JobIds : DeleteTask(j)
    \/ \E j \in JobIds : Expire(j)
    \/ Tick
    \/ \E e \in Execs : Pickup(e)
    \/ \E e \in Execs : Mkdtemp(e)
    \/ \E e \in Execs : UpdateGet(e)
    \/ \E e \in Execs : UpdateSet(e)
    \/ \E e \in Execs : Download(e)
    \/ \E e \in Execs : Ffmpeg(e)
    \/ \E e \in Execs : WhisperCheck(e)
    \/ \E e \in Execs : WhisperLoad(e)
    \/ \E e \in Execs : WhisperRun(e)
    \/ \E e \in Execs : Return(e)
    \/ \E e \in Execs : Except(e)
    \/ \E e \in Execs : Reraise(e)
    \/ \E e \in Execs : Finally(e)
    \/ \E e \in Execs : Interrupt(e)
    \/ \E e \in Execs : HardKill(e)

SpecTwoJobs == InitTwoJobs /\ [][NextTwoJobs]_vars

\* a step of an update_task_status call of execution e
UpdateStep(e) ==
    pc[e] \in {"update_get", "update_set"} /\ pc'[e] # pc[e]
    /\ pc'[e] # "killed"

\* the progress texts the execution of job j writes
ProgressTexts(j) ==
    {ProgSubmitted, ProgDownload, ProgFfmpeg,
     ProgWhisper(request[j].model_size), ProgDone}

\* the record holds what the submission and the execution of job j wrote
OwnRecord(j, rec) ==
    /\ rec.task_id = j
    /\ rec.video_url = request[j].video_url
    /\ rec.output_format = request[j].output_format
    /\ rec.model_size = request[j].model_size
    /\ rec.progress \subseteq ProgressTexts(j)
    /\ \A res \in rec.result : res.format = request[j].output_format

\* C15: a step of an update_task_status call for one job leaves the record
\* and the expiry time of every other job as they were, and every stored
\* record holds only what the submission and the executions of its own job
\* wrote.
C15_OtherJobsUntouched ==
    [][/\ \A e \in Execs :
             UpdateStep(e) =>
                \A j \in JobIds \ {JobOf(e)} :
                   store'[j] = store[j] /\ expires'[j] = expires[j]
       /\ \A j \in JobIds :
             store'[j] # None => OwnRecord(j, TheValue(store'[j]))]_vars

\* C15 witness: two executions work on different jobs and each has written
\* its own progress for the transcription stage into its job's record.
C15_Witness ==
    \E e1, e2 \in Execs :
        /\ task[e1] # None /\ task[e2] # None
        /\ JobOf(e1) # JobOf(e2)
        /\ HasRecord(JobOf(e1)) /\ HasRecord(JobOf(e2))
        /\ Record(JobOf(e1)).progress = Some(ProgWhisper("tiny"))
        /\ Record(JobOf(e2)).progress = Some(ProgWhisper("small"))

====
